---- MODULE Spec2Model ----
(***************************************************************************)
(* Supermaple: the Physics class (box registry, fixed-timestep clock), the *)
(* onAnimationFrame scheduler tick of GameLayer, and the seed-keyed        *)
(* random() cache of utils.                                                *)
(*                                                                         *)
(* Numbers.  Times are integers counting 1/3000 ms, so that the default    *)
(* step 1000/60 ms (50000 units) and the step 16.667 ms (50001 units) are  *)
(* both whole and floor((a - b) / stepMs) is the integer floor division.   *)
(* The arithmetic is exact; the rounding of IEEE doubles is not modelled.   *)
(* Box coordinates are whole grid units.                                   *)
(***************************************************************************)
EXTENDS Integers, Sequences, FiniteSets, TLC

VARIABLES
  stepMs,         \* Physics.stepMs
  startTime,      \* Physics.startTime
  lastTime,       \* Physics.lastTime
  boxes,          \* Physics.boxes: function from id to Box
  random_cache,   \* utils random_cache: function from seed key to generator
  call,           \* history: the most recent call, its arguments and outcome
  stepLog,        \* history: frame index of every step the ticks executed, in order
  constructions,  \* history: seed key -> number of seedrandom() constructions
  created,        \* history: the clock fields as the constructor left them
  replay,         \* a second, independent run fed the same inputs (SpecReplay)
  app             \* GameLayer: its state, refs, frame requests and running tick (SpecApp)

vars == <<stepMs, startTime, lastTime, boxes, random_cache, call, stepLog,
          constructions, created, replay, app>>

----------------------------------------------------------------------------
(* Bounds of the exploration *)

MaxTime == 12     \* time samples are 0 .. MaxTime half-steps
MaxBoxes == 2     \* adds are explored until the registry holds this many boxes
MaxEntropy == 1   \* ambient entropy values an unseeded generator may start from
MaxDraws == 2     \* values drawn from one generator
MaxFrames == 3    \* animation frames requested in one run of GameLayer

----------------------------------------------------------------------------
(* Values *)

UnitsPerMs == 3 * 1000
StepMsDefault == (1000 * UnitsPerMs) \div 60          \* 1000 / 60 ms
StepMsExample == (16667 * UnitsPerMs) \div 1000       \* 16.667 ms
TimeQuantum == StepMsDefault \div 2
Times == {k * TimeQuantum : k \in 0..MaxTime}
Ms(n) == n * UnitsPerMs

Undefined == "<undefined>"      \* the absent seed, a Map key of its own
Seeds == {"alpha", "beta"}
SeedKeys == Seeds \cup {Undefined}
Entropy == 0..MaxEntropy

DefaultX == 0
DefaultY == 0
DefaultW == 1
DefaultH == 1
DefaultKind == "solid"

EmptyMap == [k \in {} |-> 0]

(* Partial<Box>: a record holding only the supplied fields *)
Shapes ==
  { EmptyMap,
    [x |-> 2],
    [w |-> 0, h |-> 0 - 1],
    [x |-> 2, y |-> 1, w |-> 2, h |-> 3, kind |-> "sensor"] }
SuppliedIds == {"a", "3"}
Partials == Shapes \cup {("id" :> i) @@ s : i \in SuppliedIds, s \in Shapes}

----------------------------------------------------------------------------
(* utils: assert, floor *)

\* assert(condition, ...data) throws exactly when the condition is falsy
AssertThrows(condition) == ~condition

\* floor(a / b) for b > 0
Floor(a, b) == a \div b

----------------------------------------------------------------------------
(* seedrandom: a deterministic stream per generator.  A generator holds the *)
(* key it was seeded with and its position in the stream; a string seed     *)
(* fixes the key, no seed draws it from ambient entropy.                    *)

MixKey(seed) == IF seed = "alpha" THEN 1 ELSE 6
PRNGNext(s) == (5 * s + 3) % 8
RECURSIVE PRNGValue(_, _)
PRNGValue(key, i) == IF i = 0 THEN key ELSE PRNGNext(PRNGValue(key, i - 1))
SeedRandom(seed, entropy, gen) ==
  [gen |-> gen, key |-> IF seed = Undefined THEN entropy ELSE MixKey(seed), i |-> 0]
\* calling the generator: it advances one position and yields that value
Draw(g) == [g EXCEPT !.i = @ + 1]

Total(cs) ==
  LET RECURSIVE Sum(_)
      Sum(S) == IF S = {} THEN 0
                ELSE LET k == CHOOSE k \in S : TRUE IN cs[k] + Sum(S \ {k})
  IN Sum(DOMAIN cs)

\* random(seed): the cache after the call, the value drawn, and whether a
\* generator was constructed.  count is the number of generators built so far.
RandomAlwaysConstructs(cache, seed, entropy, count) ==
  LET g == Draw(SeedRandom(seed, entropy, count + 1))
  IN [cache |-> [k \in DOMAIN cache \cup {seed} |->
                   IF k = seed THEN g ELSE cache[k]],
      value |-> PRNGValue(g.key, g.i),
      constructed |-> TRUE]

RandomOp(cache, seed, entropy, count) ==
  LET has == seed \in DOMAIN cache
      cache1 == IF has THEN cache
                ELSE [k \in DOMAIN cache \cup {seed} |->
                        IF k = seed THEN SeedRandom(seed, entropy, count + 1)
                        ELSE cache[k]]
      g == Draw(cache1[seed])
  IN [cache |-> [cache1 EXCEPT ![seed] = g],
      value |-> PRNGValue(g.key, g.i),
      constructed |-> ~has]

\* the exploration stops drawing from a generator after MaxDraws values
MayDraw(cache, seed) == seed \in DOMAIN cache => cache[seed].i < MaxDraws

Bump(cs, seed, constructed) ==
  IF constructed THEN [cs EXCEPT ![seed] = @ + 1] ELSE cs

----------------------------------------------------------------------------
(* Physics.add *)

Field(p, f, default) == IF f \in DOMAIN p THEN p[f] ELSE default

\* add(partial): the registry and the cache after the call, the resolved id,
\* the returned box, and whether the assertion threw.
AddOverwrites(bx, cache, p, entropy, count) ==
  LET drew == "id" \notin DOMAIN p
      r == IF drew THEN RandomOp(cache, Undefined, entropy, count)
           ELSE [cache |-> cache, value |-> 0, constructed |-> FALSE]
      id == IF drew THEN ToString(r.value) ELSE p.id
      box == [id |-> id,
              x |-> Field(p, "x", DefaultX),
              y |-> Field(p, "y", DefaultY),
              w |-> Field(p, "w", DefaultW),
              h |-> Field(p, "h", DefaultH),
              kind |-> Field(p, "kind", DefaultKind)]
  IN [boxes |-> [k \in DOMAIN bx \cup {id} |-> IF k = id THEN box ELSE bx[k]],
      cache |-> r.cache, id |-> id, ret |-> box, threw |-> id \in DOMAIN bx,
      drew |-> drew, constructed |-> r.constructed]

AddIgnoresSupplied(bx, cache, p, entropy, count) ==
  LET drew == "id" \notin DOMAIN p
      r == IF drew THEN RandomOp(cache, Undefined, entropy, count)
           ELSE [cache |-> cache, value |-> 0, constructed |-> FALSE]
      id == IF drew THEN ToString(r.value) ELSE p.id
      threw == AssertThrows(~(id \in DOMAIN bx))
      box == [id |-> id, x |-> DefaultX, y |-> DefaultY, w |-> DefaultW,
              h |-> DefaultH, kind |-> DefaultKind]
  IN [boxes |-> IF threw THEN bx
                ELSE [k \in DOMAIN bx \cup {id} |-> IF k = id THEN box ELSE bx[k]],
      cache |-> r.cache, id |-> id, ret |-> box, threw |-> threw,
      drew |-> drew, constructed |-> r.constructed]

AddOp(bx, cache, p, entropy, count) ==
  LET drew == "id" \notin DOMAIN p
      r == IF drew THEN RandomOp(cache, Undefined, entropy, count)
           ELSE [cache |-> cache, value |-> 0, constructed |-> FALSE]
      id == IF drew THEN ToString(r.value) ELSE p.id
      threw == AssertThrows(~(id \in DOMAIN bx))
      box == [id |-> id,
              x |-> Field(p, "x", DefaultX),
              y |-> Field(p, "y", DefaultY),
              w |-> Field(p, "w", DefaultW),
              h |-> Field(p, "h", DefaultH),
              kind |-> Field(p, "kind", DefaultKind)]
  IN [boxes |-> IF threw THEN bx
                ELSE [k \in DOMAIN bx \cup {id} |-> IF k = id THEN box ELSE bx[k]],
      cache |-> r.cache, id |-> id, ret |-> box, threw |-> threw,
      drew |-> drew, constructed |-> r.constructed]

----------------------------------------------------------------------------
(* Physics.step: the body is empty, so the registry is left as it is and    *)
(* the collision callback is never invoked.                                 *)

StepOp(bx) == [boxes |-> bx, collisions |-> << >>]

----------------------------------------------------------------------------
(* GameLayer: onAnimationFrame(time), one scheduler tick *)

NoTime == 0 - 1                 \* a clock field that was never set
\* a ?? b
Coalesce(a, b) == IF a = NoTime THEN b ELSE a

\* the frames the loop "for (f = 0; f < fastForwardFrames; f++)" visits
DueFrames(pastFrames, fastForwardFrames) ==
  [f \in 1..fastForwardFrames |-> pastFrames + (f - 1)]

\* physics.step(...) once per due frame, one after the other
RECURSIVE RunSteps(_, _)
RunSteps(bx, n) == IF n <= 0 THEN bx ELSE RunSteps(StepOp(bx).boxes, n - 1)

\* the tick on physics p = [stepMs, startTime, lastTime, boxes].  After each
\* step the callback writes the boxes' sizes and positions into their div
\* styles, which are no state of Physics.
TickKeepsLastTime(p, time) ==
  LET startTime1 == Coalesce(p.startTime, time)
      lastTime1 == Coalesce(p.lastTime, time)
      pastFrames == Floor(lastTime1 - startTime1, p.stepMs)
      allFrames == Floor(time - startTime1, p.stepMs)
      fastForwardFrames == allFrames - pastFrames
      frames == DueFrames(pastFrames, fastForwardFrames)
  IN [startTime |-> startTime1, lastTime |-> lastTime1,
      boxes |-> RunSteps(p.boxes, Len(frames)),
      frames |-> frames, pastFrames |-> pastFrames, allFrames |-> allFrames]

TickOp(p, time) ==
  LET startTime1 == Coalesce(p.startTime, time)
      lastTime1 == Coalesce(p.lastTime, time)
      pastFrames == Floor(lastTime1 - startTime1, p.stepMs)
      allFrames == Floor(time - startTime1, p.stepMs)
      fastForwardFrames == allFrames - pastFrames
      lastTime2 == IF fastForwardFrames # 0 THEN time ELSE lastTime1
      frames == DueFrames(pastFrames, fastForwardFrames)
  IN [startTime |-> startTime1, lastTime |-> lastTime2,
      boxes |-> RunSteps(p.boxes, Len(frames)),
      frames |-> frames, pastFrames |-> pastFrames, allFrames |-> allFrames]

----------------------------------------------------------------------------
(* Construction *)

NoRun == [op |-> "none"]

\* new Physics(): stepMs, then startTime = Date.now(), then lastTime = Date.now()
Constructed(ms, t0, t1) ==
  /\ stepMs = ms
  /\ startTime = t0
  /\ lastTime = t1
  /\ boxes = EmptyMap
  /\ random_cache = EmptyMap
  /\ call = [op |-> "new"]
  /\ stepLog = << >>
  /\ constructions = [k \in SeedKeys |-> 0]
  /\ created = [startTime |-> t0, lastTime |-> t1]

NoApp == [op |-> "none"]

Init ==
  /\ Constructed(StepMsDefault, 0, 0)
  /\ replay = NoRun
  /\ app = NoApp

----------------------------------------------------------------------------
(* Actions on the registry and the generator cache *)

Add(p, entropy) ==
  LET r == AddOp(boxes, random_cache, p, entropy, Total(constructions))
  IN /\ Cardinality(DOMAIN boxes) < MaxBoxes \/ r.threw
     /\ r.drew => MayDraw(random_cache, Undefined)
     /\ boxes' = r.boxes
     /\ random_cache' = r.cache
     /\ constructions' = Bump(constructions, Undefined, r.constructed)
     /\ call' = [op |-> "add", arg |-> p, id |-> r.id, threw |-> r.threw,
                 ret |-> IF r.threw THEN EmptyMap ELSE r.ret]
     /\ UNCHANGED <<stepMs, startTime, lastTime, stepLog, created, replay, app>>

Random(seed, entropy) ==
  LET r == RandomOp(random_cache, seed, entropy, Total(constructions))
  IN /\ MayDraw(random_cache, seed)
     /\ random_cache' = r.cache
     /\ constructions' = Bump(constructions, seed, r.constructed)
     /\ call' = [op |-> "random", seed |-> seed, ret |-> r.value,
                 constructed |-> r.constructed]
     /\ UNCHANGED <<stepMs, startTime, lastTime, boxes, stepLog, created, replay, app>>

Step ==
  LET r == StepOp(boxes)
  IN /\ boxes' = r.boxes
     /\ call' = [op |-> "step", collisions |-> r.collisions]
     /\ UNCHANGED <<stepMs, startTime, lastTime, random_cache, stepLog,
                    constructions, created, replay, app>>

(* The registry: add and step on one Physics instance.  No action here     *)
(* reads the clock fields, which stay as one construction left them.       *)
Next ==
  \/ \E p \in Partials, e \in Entropy : Add(p, e)
  \/ Step

Spec == Init /\ [][Next]_vars

(* The generator cache: random(seed) from any caller, add's default id     *)
(* among them.                                                             *)
NextRandom ==
  \/ \E s \in SeedKeys, e \in Entropy : Random(s, e)
  \/ \E e \in Entropy : Add(EmptyMap, e)

SpecRandom == Init /\ [][NextRandom]_vars

----------------------------------------------------------------------------
(* The scheduler: ticks on one Physics instance.  requestAnimationFrame     *)
(* hands its callbacks timestamps that never decrease.                      *)

Physics == [stepMs |-> stepMs, startTime |-> startTime, lastTime |-> lastTime,
            boxes |-> boxes]

Tick(time) ==
  LET r == TickOp(Physics, time)
  IN /\ call.op = "tick" => call.time <= time
     /\ startTime' = r.startTime
     /\ lastTime' = r.lastTime
     /\ boxes' = r.boxes
     /\ stepLog' = stepLog \o r.frames
     /\ call' = [op |-> "tick", time |-> time, steps |-> Len(r.frames),
                 pastFrames |-> r.pastFrames, allFrames |-> r.allFrames,
                 lastTimeBefore |-> lastTime,
                 again |-> call.op = "tick" /\ call.time = time]
     /\ UNCHANGED <<stepMs, random_cache, constructions, created, replay, app>>

\* The first tick comes after the populate effect's physics.add({}).
Populated(ms, t0, t1, entropy) ==
  LET r == AddOp(EmptyMap, EmptyMap, EmptyMap, entropy, 0)
  IN /\ stepMs = ms
     /\ startTime = t0
     /\ lastTime = t1
     /\ boxes = r.boxes
     /\ random_cache = r.cache
     /\ call = [op |-> "new"]
     /\ stepLog = << >>
     /\ constructions = Bump([k \in SeedKeys |-> 0], Undefined, r.constructed)
     /\ created = [startTime |-> t0, lastTime |-> t1]

InitScheduler ==
  /\ \E ms \in {StepMsDefault, StepMsExample}, t0 \in Times, t1 \in Times,
        e \in Entropy :
        t0 <= t1 /\ Populated(ms, t0, t1, e)
  /\ replay = NoRun
  /\ app = NoApp

NextScheduler == \E time \in Times : Tick(time)

SpecScheduler == InitScheduler /\ [][NextScheduler]_vars

----------------------------------------------------------------------------
(* Replay: two independent runs of the program, each constructing its own  *)
(* Physics and its own generator cache, fed the same add calls and the same *)
(* tick samples.  Each run reads its own Date.now() at construction and its *)
(* own ambient entropy when it seeds a generator without a seed.            *)

Epochs == {0, StepMsDefault}

ReplayAdd(p, entropy, entropy2) ==
  LET r == AddOp(boxes, random_cache, p, entropy, Total(constructions))
      r2 == AddOp(replay.boxes, replay.random_cache, p, entropy2,
                  Cardinality(DOMAIN replay.random_cache))
  IN /\ Cardinality(DOMAIN boxes) < MaxBoxes
     /\ Cardinality(DOMAIN replay.boxes) < MaxBoxes
     /\ r.drew => MayDraw(random_cache, Undefined)
     /\ r2.drew => MayDraw(replay.random_cache, Undefined)
     /\ boxes' = r.boxes
     /\ random_cache' = r.cache
     /\ constructions' = Bump(constructions, Undefined, r.constructed)
     /\ replay' = [replay EXCEPT !.boxes = r2.boxes, !.random_cache = r2.cache]
     /\ UNCHANGED <<stepMs, startTime, lastTime, call, stepLog, created, app>>

ReplayTick(time) ==
  LET r == TickOp(Physics, time)
      r2 == TickOp(replay, time)
  IN /\ call.op = "tick" => call.time <= time
     /\ startTime' = r.startTime
     /\ lastTime' = r.lastTime
     /\ boxes' = r.boxes
     /\ stepLog' = stepLog \o r.frames
     /\ call' = [op |-> "tick", time |-> time]
     /\ replay' = [replay EXCEPT !.startTime = r2.startTime,
                                 !.lastTime = r2.lastTime,
                                 !.boxes = r2.boxes,
                                 !.stepLog = @ \o r2.frames]
     /\ UNCHANGED <<stepMs, random_cache, constructions, created, app>>

InitReplay ==
  /\ \E t \in Epochs : Constructed(StepMsDefault, t, t)
  /\ \E t \in Epochs :
        replay = [op |-> "run", stepMs |-> StepMsDefault, startTime |-> t,
                  lastTime |-> t, boxes |-> EmptyMap, random_cache |-> EmptyMap,
                  stepLog |-> << >>]
  /\ app = NoApp

NextReplay ==
  \/ \E p \in {EmptyMap, [id |-> "a"]}, e \in Entropy, e2 \in Entropy :
        ReplayAdd(p, e, e2)
  \/ \E time \in Times : ReplayTick(time)

SpecReplay == InitReplay /\ [][NextReplay]_vars

----------------------------------------------------------------------------
(* GameLayer: the component's effects and its animation-frame loop, with    *)
(* the tick taken one statement group at a time.  JavaScript runs a         *)
(* callback to completion: while a tick is running no other callback of the *)
(* component starts.                                                        *)

Px == 16

NullRef == [mounted |-> FALSE, style |-> << >>]     \* createRef(): current = null
Idle == [pc |-> "idle"]

\* raf[0] = requestAnimationFrame(onAnimationFrame): the browser issues the
\* next request id and lists the callback; the id is kept in raf[0]
RegisterTwice(a) ==
  [a EXCEPT !.issued = @ + 2,
            !.pending = @ \cup {a.issued + 1, a.issued + 2},
            !.raf = a.issued + 2]

RegisterForgetsHandle(a) ==
  [a EXCEPT !.issued = @ + 1, !.pending = @ \cup {a.issued + 1}]

Register(a) ==
  [a EXCEPT !.issued = @ + 1, !.pending = @ \cup {a.issued + 1},
            !.raf = a.issued + 1]

\* cancelAnimationFrame(raf[0])
Cancel(a) == [a EXCEPT !.pending = @ \ {a.raf}]

\* the populate effect: nothing while physics is absent; else physics.add({})
\* and a createRef() under the id of every box added
PopulateForgetsRef(present, bx, cache, refs, entropy, count) ==
  IF ~present
  THEN [boxes |-> bx, cache |-> cache, refs |-> refs, constructed |-> FALSE,
        threw |-> FALSE]
  ELSE LET r == AddOp(bx, cache, EmptyMap, entropy, count)
       IN [boxes |-> r.boxes, cache |-> r.cache, refs |-> refs,
           constructed |-> r.constructed, threw |-> r.threw]

PopulateEffect(present, bx, cache, refs, entropy, count) ==
  IF ~present
  THEN [boxes |-> bx, cache |-> cache, refs |-> refs, constructed |-> FALSE,
        threw |-> FALSE]
  ELSE LET r == AddOp(bx, cache, EmptyMap, entropy, count)
       IN [boxes |-> r.boxes, cache |-> r.cache,
           refs |-> IF r.threw THEN refs
                    ELSE [k \in DOMAIN refs \cup {r.ret.id} |->
                            IF k = r.ret.id THEN NullRef ELSE refs[k]],
           constructed |-> r.constructed, threw |-> r.threw]

\* the game-loop effect: nothing while physics is absent; else the first
\* frame request
GameLoopUnguarded(a) == Register(a)

GameLoopEffect(a) == IF ~a.physics THEN a ELSE Register(a)

\* lines 139-148 of the tick: the clock fields and the frames due
TickHeadPositiveOnly(p, time) ==
  LET startTime1 == Coalesce(p.startTime, time)
      lastTime1 == Coalesce(p.lastTime, time)
      pastFrames == Floor(lastTime1 - startTime1, p.stepMs)
      allFrames == Floor(time - startTime1, p.stepMs)
      fastForwardFrames == allFrames - pastFrames
  IN [startTime |-> startTime1,
      lastTime |-> IF fastForwardFrames > 0 THEN time ELSE lastTime1,
      pastFrames |-> pastFrames, fastForwardFrames |-> fastForwardFrames]

TickHead(p, time) ==
  LET startTime1 == Coalesce(p.startTime, time)
      lastTime1 == Coalesce(p.lastTime, time)
      pastFrames == Floor(lastTime1 - startTime1, p.stepMs)
      allFrames == Floor(time - startTime1, p.stepMs)
      fastForwardFrames == allFrames - pastFrames
  IN [startTime |-> startTime1,
      lastTime |-> IF fastForwardFrames # 0 THEN time ELSE lastTime1,
      pastFrames |-> pastFrames, fastForwardFrames |-> fastForwardFrames]

\* lines 157-169, "animate box divs": for every registered box, read its ref
\* (a TypeError when boxDivsRef has no entry under the id), skip it when no
\* div is mounted, else write the div's width, height and transform.  With
\* the one box the populate effect adds, no write precedes a failing read.
StyleOf(box) == <<box.w * Px, box.h * Px, box.x * Px, box.y * Px>>

AnimateSnapsBoxes(bx, refs) ==
  [boxes |-> [id \in DOMAIN bx |-> [bx[id] EXCEPT !.x = @ * Px, !.y = @ * Px,
                                                  !.w = @ * Px, !.h = @ * Px]],
   refs |-> refs, threw |-> FALSE]

Animate(bx, refs) ==
  IF \E id \in DOMAIN bx : bx[id].id \notin DOMAIN refs
  THEN [boxes |-> bx, refs |-> refs, threw |-> TRUE]
  ELSE [boxes |-> bx,
        refs |-> [k \in DOMAIN refs |->
                    IF k \in DOMAIN bx /\ refs[k].mounted
                    THEN [refs[k] EXCEPT !.style = StyleOf(bx[k])]
                    ELSE refs[k]],
        threw |-> FALSE]

\* boxDivs of a render: a div under every ref whose box is registered; a div
\* already mounted is kept as it is
RenderDivs(present, bx, refs) ==
  IF ~present THEN refs
  ELSE [k \in DOMAIN refs |->
          IF k \in DOMAIN bx THEN [refs[k] EXCEPT !.mounted = TRUE] ELSE refs[k]]

\* The component after its first render: no effect has run, no Physics yet.
InitApp ==
  /\ stepMs = StepMsDefault
  /\ startTime = NoTime
  /\ lastTime = NoTime
  /\ boxes = EmptyMap
  /\ random_cache = EmptyMap
  /\ call = [op |-> "new"]
  /\ stepLog = << >>
  /\ constructions = [k \in SeedKeys |-> 0]
  /\ created = [startTime |-> NoTime, lastTime |-> NoTime]
  /\ replay = NoRun
  /\ app = [mounted |-> TRUE, promise |-> "none", physics |-> FALSE,
            boxDivsRef |-> EmptyMap, raf |-> 0, pending |-> {}, issued |-> 0,
            tick |-> Idle, sample |-> NoTime, cleaned |-> FALSE, threw |-> FALSE]

\* The effects of the mount: Physics.create() constructs the instance (its
\* promise is pending), the populate and game-loop effects see no physics.
MountEffects(t0, t1) ==
  LET pop == PopulateEffect(app.physics, boxes, random_cache, app.boxDivsRef, 0,
                            Total(constructions))
  IN /\ app.mounted /\ app.promise = "none"
     /\ startTime' = t0
     /\ lastTime' = t1
     /\ created' = [startTime |-> t0, lastTime |-> t1]
     /\ boxes' = pop.boxes
     /\ random_cache' = pop.cache
     /\ constructions' = Bump(constructions, Undefined, pop.constructed)
     /\ app' = GameLoopEffect([app EXCEPT !.promise = "pending",
                                          !.boxDivsRef = pop.refs])
     /\ UNCHANGED <<stepMs, call, stepLog, replay>>

\* The promise resolves: setPhysics, the render with physics set, then the
\* populate and game-loop effects, whose dependency changed.
Publish(entropy) ==
  LET pop == PopulateEffect(TRUE, boxes, random_cache, app.boxDivsRef, entropy,
                            Total(constructions))
  IN /\ app.mounted /\ app.promise = "pending" /\ app.tick.pc = "idle"
     /\ boxes' = pop.boxes
     /\ random_cache' = pop.cache
     /\ constructions' = Bump(constructions, Undefined, pop.constructed)
     /\ app' = GameLoopEffect([app EXCEPT !.promise = "settled",
                                          !.physics = TRUE,
                                          !.boxDivsRef = pop.refs])
     /\ UNCHANGED <<stepMs, startTime, lastTime, call, stepLog, created, replay>>

\* The promise resolves after the unmount: setPhysics on a component that is
\* gone renders nothing and runs no effect.
SettleUnmounted ==
  /\ ~app.mounted /\ app.promise = "pending"
  /\ app' = [app EXCEPT !.promise = "settled"]
  /\ UNCHANGED <<stepMs, startTime, lastTime, boxes, random_cache, call, stepLog,
                 constructions, created, replay>>

\* A later render (window resize, tileset loaded) commits boxDivs.
Render ==
  /\ app.mounted /\ app.promise # "none" /\ app.tick.pc = "idle"
  /\ app' = [app EXCEPT !.boxDivsRef = RenderDivs(app.physics, boxes, @)]
  /\ UNCHANGED <<stepMs, startTime, lastTime, boxes, random_cache, call, stepLog,
                 constructions, created, replay>>

\* The browser runs a listed frame callback: lines 137-148 of the tick.
Frame(h, time) ==
  LET r == TickHead(Physics, time)
  IN /\ h \in app.pending
     /\ app.tick.pc = "idle"
     /\ app.issued <= MaxFrames
     /\ app.sample <= time
     /\ startTime' = r.startTime
     /\ lastTime' = r.lastTime
     /\ app' = [Register([app EXCEPT !.pending = @ \ {h}]) EXCEPT
                  !.sample = time,
                  !.tick = [pc |-> "loop", time |-> time, f |-> 0,
                            lastTimeBefore |-> lastTime,
                            pastFrames |-> r.pastFrames,
                            fastForwardFrames |-> r.fastForwardFrames]]
     /\ UNCHANGED <<stepMs, boxes, random_cache, call, stepLog, constructions,
                    created, replay>>

\* One pass of the loop of line 150: the step of frame pastFrames + f, then
\* the box divs.
LoopIteration ==
  LET stepped == StepOp(boxes)
      shown == Animate(stepped.boxes, app.boxDivsRef)
  IN /\ app.tick.pc = "loop"
     /\ app.tick.f < app.tick.fastForwardFrames
     /\ stepLog' = Append(stepLog, app.tick.pastFrames + app.tick.f)
     /\ boxes' = shown.boxes
     /\ app' = IF shown.threw
               THEN [app EXCEPT !.threw = TRUE, !.tick.pc = "idle"]
               ELSE [app EXCEPT !.boxDivsRef = shown.refs, !.tick.f = @ + 1]
     /\ UNCHANGED <<stepMs, startTime, lastTime, random_cache, call,
                    constructions, created, replay>>

\* The loop ends and the callback returns.
Return ==
  /\ app.tick.pc = "loop"
  /\ ~(app.tick.f < app.tick.fastForwardFrames)
  /\ app' = [app EXCEPT !.tick.pc = "idle"]
  /\ UNCHANGED <<stepMs, startTime, lastTime, boxes, random_cache, call, stepLog,
                 constructions, created, replay>>

\* The component unmounts: the game-loop effect's cleanup, if that effect got
\* past its guard, cancels raf[0]; React detaches the refs.
Unmount ==
  /\ app.mounted /\ app.promise # "none" /\ app.tick.pc = "idle"
  /\ app' = [(IF app.physics THEN [Cancel(app) EXCEPT !.cleaned = TRUE] ELSE app)
               EXCEPT !.mounted = FALSE,
                      !.boxDivsRef = [k \in DOMAIN @ |-> NullRef]]
  /\ UNCHANGED <<stepMs, startTime, lastTime, boxes, random_cache, call, stepLog,
                 constructions, created, replay>>

NextApp ==
  \/ \E t0 \in Epochs, t1 \in Epochs : t0 <= t1 /\ MountEffects(t0, t1)
  \/ \E e \in Entropy : Publish(e)
  \/ SettleUnmounted
  \/ Render
  \/ \E h \in app.pending, time \in Times : Frame(h, time)
  \/ LoopIteration
  \/ Return
  \/ Unmount

SpecApp == InitApp /\ [][NextApp]_vars

----------------------------------------------------------------------------
(* Scheduler properties (SpecScheduler) *)

\* s lists consecutive integers in increasing order
Consecutive(s) == \A i \in 1..(Len(s) - 1) : s[i + 1] = s[i] + 1

\* C2: after any ticks with non-decreasing samples, the executed frame
\* indices are increasing without repeat or gap, and the number of step calls
\* is floor((latest sample - startTime) / stepMs) minus the frames already
\* elapsed at construction.
C2_TotalStepsMatchElapsed ==
  call.op = "tick" =>
    /\ Consecutive(stepLog)
    /\ Len(stepLog) = Floor(call.time - startTime, stepMs)
                        - Floor(created.lastTime - created.startTime, stepMs)

\* C3: every tick executes allFrames - pastFrames steps.
C3_StepsEqualDueFrames ==
  call.op = "tick" => call.steps = call.allFrames - call.pastFrames

\* The example of C3: with stepMs = 16.667, startTime = lastTime = 0, the tick
\* at 50 ms runs frames 0 and 1, and the tick at 100 ms after it runs 2..4.
C3_ExampleHolds ==
  (/\ stepMs = StepMsExample
   /\ created = [startTime |-> 0, lastTime |-> 0]
   /\ call.op = "tick")
  => /\ (call.time = Ms(50) /\ call.lastTimeBefore = 0) => stepLog = <<0, 1>>
     /\ (call.time = Ms(100) /\ call.lastTimeBefore = Ms(50))
          => (call.steps = 3 /\ stepLog = <<0, 1, 2, 3, 4>>)

\* C4: a tick given the same currentTime as the tick before it runs no step
\* and leaves startTime, lastTime and the registry as they were.
C4_SameTimeTickIsNoOp ==
  [][(call.op = "tick" /\ call'.op = "tick" /\ call'.time = call.time)
       => /\ call'.steps = 0
          /\ startTime' = startTime
          /\ lastTime' = lastTime
          /\ boxes' = boxes]_vars

\* a second tick at the time of a tick that had executed steps
C4_Witness ==
  /\ call.op = "tick"
  /\ call.again
  /\ call.steps = 0
  /\ lastTime = call.time
  /\ Len(stepLog) >= 2

\* C10: startTime <= lastTime always, and no tick moves lastTime backwards.
C10_ClockMonotonic ==
  /\ startTime <= lastTime
  /\ call.op = "tick" => call.lastTimeBefore <= lastTime

----------------------------------------------------------------------------
(* Registry properties (Spec) *)

\* C1: an add whose resolved id is already a key of the registry fails with
\* the assertion error, and a failed add leaves the registry as it was.
C1_DuplicateAddFails ==
  [][call'.op = "add"
       => /\ call'.id \in DOMAIN boxes => call'.threw
          /\ call'.threw => boxes' = boxes]_vars

\* an add that resolved its default id to one already registered, and failed
C1_Witness ==
  /\ call.op = "add"
  /\ call.arg = EmptyMap
  /\ call.threw
  /\ call.id \in DOMAIN boxes

\* rectangles [x, x+w) x [y, y+h) overlap
Overlap(a, b) ==
  /\ a.x < b.x + b.w /\ b.x < a.x + a.w
  /\ a.y < b.y + b.h /\ b.y < a.y + a.h

OverlappingPairs(bx) ==
  {{i, j} : i, j \in DOMAIN bx} \cap
  {pr \in SUBSET DOMAIN bx :
     \E i, j \in pr : i # j /\ pr = {i, j} /\ Overlap(bx[i], bx[j])}

ReportedPairs(collisions) ==
  {{collisions[n][1].id, collisions[n][2].id} : n \in 1..Len(collisions)}

\* C6: a step reports exactly the unordered pairs of registered boxes whose
\* rectangles overlap, each pair once.
C6_StepReportsOverlaps ==
  call.op = "step" =>
    /\ ReportedPairs(call.collisions) = OverlappingPairs(boxes)
    /\ Len(call.collisions) = Cardinality(OverlappingPairs(boxes))

\* C7: an add with w <= 0 or h <= 0 fails and stores nothing, so every
\* registered box has w > 0 and h > 0.
C7_NonPositiveSizeRejected ==
  /\ \A id \in DOMAIN boxes : boxes[id].w > 0 /\ boxes[id].h > 0
  /\ (call.op = "add" /\ "w" \in DOMAIN call.arg /\ call.arg.w <= 0) => call.threw
  /\ (call.op = "add" /\ "h" \in DOMAIN call.arg /\ call.arg.h <= 0) => call.threw

\* the box add(arg) is to store under id: supplied fields kept, the others
\* x = 0, y = 0, w = 1, h = 1, kind = 'solid'
Expected(arg, id) ==
  [id |-> id,
   x |-> IF "x" \in DOMAIN arg THEN arg.x ELSE 0,
   y |-> IF "y" \in DOMAIN arg THEN arg.y ELSE 0,
   w |-> IF "w" \in DOMAIN arg THEN arg.w ELSE 1,
   h |-> IF "h" \in DOMAIN arg THEN arg.h ELSE 1,
   kind |-> IF "kind" \in DOMAIN arg THEN arg.kind ELSE "solid"]

\* C8: a successful add stores one new entry under the resolved id, with the
\* supplied fields kept and the omitted ones defaulted, returns that box and
\* leaves every other entry unchanged.
C8_AddStoresDefaultedBox ==
  [][(call'.op = "add" /\ ~call'.threw)
       => /\ "id" \in DOMAIN call'.arg => call'.id = call'.arg.id
          /\ call'.id \notin DOMAIN boxes
          /\ DOMAIN boxes' = DOMAIN boxes \cup {call'.id}
          /\ \A k \in DOMAIN boxes : boxes'[k] = boxes[k]
          /\ boxes'[call'.id] = Expected(call'.arg, call'.id)
          /\ call'.ret = boxes'[call'.id]]_vars

\* a second box stored from a partial that supplies some fields only
C8_Witness ==
  /\ call.op = "add"
  /\ ~call.threw
  /\ call.arg = [x |-> 2]
  /\ Cardinality(DOMAIN boxes) = 2
  /\ boxes[call.id] = [id |-> call.id, x |-> 2, y |-> 0, w |-> 1, h |-> 1,
                        kind |-> "solid"]

----------------------------------------------------------------------------
(* Generator cache properties (SpecRandom) *)

\* C9: one generator is constructed per seed key, on the first call with
\* that key; later calls with the key draw the next value from that same
\* generator; distinct keys never share a generator; a call with one key
\* never advances the generator of another.
C9_OneGeneratorPerSeed ==
  [][/\ \A k \in SeedKeys :
          constructions'[k] = IF k \in DOMAIN random_cache' THEN 1 ELSE 0
     /\ \A k1, k2 \in DOMAIN random_cache' :
          k1 # k2 => random_cache'[k1].gen # random_cache'[k2].gen
     /\ \A k \in DOMAIN random_cache :
          /\ k \in DOMAIN random_cache'
          /\ random_cache'[k].gen = random_cache[k].gen
          /\ random_cache'[k].key = random_cache[k].key
     /\ call'.op = "random" =>
          /\ call'.constructed = (call'.seed \notin DOMAIN random_cache)
          /\ call'.seed \in DOMAIN random_cache =>
               /\ random_cache'[call'.seed].i = random_cache[call'.seed].i + 1
               /\ call'.ret = PRNGValue(random_cache[call'.seed].key,
                                         random_cache[call'.seed].i + 1)
          /\ \A k \in DOMAIN random_cache \ {call'.seed} :
               random_cache'[k] = random_cache[k]
     /\ call'.op = "add" =>
          \A k \in DOMAIN random_cache \ {Undefined} :
            random_cache'[k] = random_cache[k]]_vars

\* every key cached, and a later call that reused a key's generator
C9_Witness ==
  /\ DOMAIN random_cache = SeedKeys
  /\ call.op = "random"
  /\ ~call.constructed
  /\ random_cache[call.seed].i = 2
  /\ \E k \in SeedKeys \ {call.seed} : random_cache[k].i = 1

----------------------------------------------------------------------------
(* Replay properties (SpecReplay) *)

\* C5: two runs given the same add calls and the same tick samples hold the
\* same boxes and have executed the same number of steps.
C5_ReplayDeterministic ==
  /\ boxes = replay.boxes
  /\ Len(stepLog) = Len(replay.stepLog)

----------------------------------------------------------------------------
(* GameLayer properties (SpecApp) *)

\* a step of the model in which a frame callback starts
TickBegins == app.tick.pc = "idle" /\ app'.tick.pc = "loop"

\* the frames due at a tick of the current physics at the sample time
FramesDue(time) ==
  Floor(time - startTime, stepMs) - Floor(lastTime - startTime, stepMs)

\* C11: a tick sets lastTime to its sample exactly when the number of frames
\* due is nonzero, before any step of the tick has run; when no frame is due
\* it leaves lastTime as it was; the rest of the tick does not write lastTime.
C11_LastTimeSetBeforeSteps ==
  [][/\ TickBegins =>
          /\ stepLog' = stepLog
          /\ app'.tick.f = 0
          /\ FramesDue(app'.tick.time) # 0 => lastTime' = app'.tick.time
          /\ FramesDue(app'.tick.time) = 0 => lastTime' = lastTime
     /\ app.tick.pc = "loop" => lastTime' = lastTime]_vars

\* a tick with a negative number of frames due has moved lastTime to its
\* sample and is about to return without a step
C11_Witness ==
  /\ app.tick.pc = "loop"
  /\ app.tick.f = 0
  /\ app.tick.fastForwardFrames < 0
  /\ app.tick.lastTimeBefore # app.tick.time
  /\ lastTime = app.tick.time

\* a step of the model in which the running frame callback ends
TickEnds == app.tick.pc = "loop" /\ app'.tick.pc = "idle"

LoopCount(n) == IF n < 0 THEN 0 ELSE n

\* C12: at most one frame request is outstanding and at most one tick runs;
\* the steps of a tick run one after the other, in frame order, every step
\* inside a tick, and the tick ends (and the next one begins) only when all
\* its due steps have run.
C12_OneTickOneRegistration ==
  [][/\ Cardinality(app'.pending) <= 1
     /\ app'.tick.pc = "loop" => app'.raf \in app'.pending
     /\ TickEnds => app.tick.f = LoopCount(app.tick.fastForwardFrames)
     /\ TickBegins /\ "f" \in DOMAIN app.tick =>
          app.tick.f = LoopCount(app.tick.fastForwardFrames)
     /\ stepLog' # stepLog =>
          /\ app.tick.pc = "loop"
          /\ stepLog' = Append(stepLog, app.tick.pastFrames + app.tick.f)
          /\ app'.tick.f = app.tick.f + 1]_vars

\* a tick between its first and its second step, its successor requested
C12_Witness ==
  /\ app.tick.pc = "loop"
  /\ app.tick.f = 1
  /\ app.tick.fastForwardFrames >= 2
  /\ Cardinality(app.pending) = 1
  /\ Len(stepLog) >= 1

\* C13: once the cleanup of the game-loop effect has cancelled raf[0], no
\* frame request is outstanding, no tick begins and no step runs again; the
\* cleanup runs between ticks and leaves the finished tick as it was.
C13_NoTickAfterCleanup ==
  [][/\ app'.cleaned => app'.pending = {}
     /\ app.cleaned =>
          /\ app'.cleaned
          /\ stepLog' = stepLog
          /\ app'.tick = app.tick
     /\ ~app.cleaned /\ app'.cleaned =>
          /\ app.tick.pc = "idle"
          /\ app'.tick = app.tick
          /\ stepLog' = stepLog]_vars

\* the cleanup has run after two ticks that executed steps
C13_Witness ==
  /\ app.cleaned
  /\ app.issued >= 3
  /\ Len(stepLog) >= 2
  /\ app.tick.pc = "idle"
  /\ app.pending = {}

\* C14: while physics has not been published to the component (create still
\* pending, or not begun), nothing was added, no ref was created, no frame
\* was requested, no tick ran and no step was executed.
C14_NothingBeforePublish ==
  ~app.physics =>
    /\ boxes = EmptyMap
    /\ random_cache = EmptyMap
    /\ app.boxDivsRef = EmptyMap
    /\ app.pending = {}
    /\ app.issued = 0
    /\ app.raf = 0
    /\ app.tick = Idle
    /\ stepLog = << >>

\* the populate and game-loop effects have run at mount, with create pending
C14_Witness ==
  /\ app.promise = "pending"
  /\ ~app.physics
  /\ created.startTime # NoTime
  /\ app.mounted

\* C15: no tick fails on a box whose div is missing: once physics is
\* published every registered id has an entry in boxDivsRef, a ref without a
\* mounted div gets no style, and a finished tick has run all its due steps.
C15_TickToleratesUnmountedDiv ==
  /\ ~app.threw
  /\ app.physics => \A id \in DOMAIN boxes : boxes[id].id \in DOMAIN app.boxDivsRef
  /\ \A k \in DOMAIN app.boxDivsRef :
       ~app.boxDivsRef[k].mounted => app.boxDivsRef[k].style = << >>
  /\ app.tick.pc = "idle" /\ "f" \in DOMAIN app.tick =>
       app.tick.f = LoopCount(app.tick.fastForwardFrames)

\* a tick has run its two due steps while the box's div was not mounted
C15_Witness ==
  /\ app.mounted
  /\ app.tick.pc = "idle"
  /\ "f" \in DOMAIN app.tick
  /\ app.tick.f = 2
  /\ Len(stepLog) = 2
  /\ boxes # EmptyMap
  /\ \A id \in DOMAIN boxes : ~app.boxDivsRef[id].mounted

\* C16: from the publication of physics on, ticks, renders and the unmount
\* leave stepMs, startTime and the registry (its keys and every field of every
\* box) as the step calls left them; lastTime changes only when a tick begins.
C16_PresentationKeepsPhysics ==
  [][app.physics =>
       /\ stepMs' = stepMs
       /\ startTime' = startTime
       /\ boxes' = IF stepLog' # stepLog THEN StepOp(boxes).boxes ELSE boxes
       /\ lastTime' # lastTime => TickBegins]_vars

\* a tick has written the style of a mounted div after a step
C16_Witness ==
  /\ app.tick.pc = "loop"
  /\ app.tick.f >= 1
  /\ boxes # EmptyMap
  /\ \A id \in DOMAIN boxes :
       /\ app.boxDivsRef[id].mounted
       /\ app.boxDivsRef[id].style = StyleOf(boxes[id])
       /\ boxes[id].w = DefaultW

====
